---- MODULE Spec2Model ----
(***************************************************************************)
(* Model of hyco-ws (src/index.js): the relay helpers added on top of the  *)
(* ws WebSocket library.                                                   *)
(*                                                                         *)
(*   createRelayedServer / relayedConnect   listener wiring on handles     *)
(*   createRelayToken / appendRelayToken    SAS token issuing              *)
(*   createRelayBaseUri / SendUri / ListenUri   relay URI construction     *)
(*                                                                         *)
(* JavaScript strings are sequences of one-character strings, so that      *)
(* url.parse, url.format, String.replace, String.indexOf and               *)
(* encodeURIComponent are computed character by character.  JavaScript     *)
(* values are records [kind, s, n]: kind is the typeof/null tag, s the     *)
(* characters of a string, n the number or the identity of an object or    *)
(* function.                                                               *)
(***************************************************************************)
EXTENDS Integers, Sequences, FiniteSets, TLC

VARIABLES
    now,        \* wall clock read by moment(), in milliseconds
    ret,        \* the last call of a token/URI function: op, args, outcome
    conn,       \* the last relayedConnect call: args, outcome, transport call, client
    openLog,    \* what the client's 'open' listeners did, in order
    srv,        \* the last createRelayedServer call: args, constructed servers, result
    connLog     \* what the server's 'connection' listeners did, in order

vars == <<now, ret, conn, openLog, srv, connLog>>

-----------------------------------------------------------------------------
(* Bounds of the model.                                                    *)

MaxTicks == 2          \* clock advances explored
TickMs == 700          \* milliseconds per clock advance
MaxOpens == 2          \* 'open' events emitted on one client
MaxConnections == 3    \* 'connection' events emitted on one server

-----------------------------------------------------------------------------
(* JavaScript values.                                                      *)

Undefined == [kind |-> "undefined", s |-> <<>>, n |-> 0]
Null == [kind |-> "null", s |-> <<>>, n |-> 0]
Str(chars) == [kind |-> "string", s |-> chars, n |-> 0]
Num(k) == [kind |-> "number", s |-> <<>>, n |-> k]
Obj(k) == [kind |-> "object", s |-> <<>>, n |-> k]
Fun(k) == [kind |-> "function", s |-> <<>>, n |-> k]

\* v != null   (loose inequality: false for null and for undefined)
NotNullish(v) == v.kind \notin {"null", "undefined"}

\* typeof v === 'function'
IsFunction(v) == v.kind = "function"

\* typeof v === 'object'   (true of null as well)
TypeofObject(v) == v.kind \in {"object", "null"}

\* !v
Falsy(v) ==
    \/ v.kind \in {"undefined", "null"}
    \/ v.kind = "number" /\ v.n = 0
    \/ v.kind = "string" /\ v.s = <<>>

-----------------------------------------------------------------------------
(* Strings.                                                                *)

Digits == <<"0", "1", "2", "3", "4", "5", "6", "7", "8", "9">>

UpperCase == <<"A", "B", "C", "D", "E", "F", "G", "H", "I", "J", "K", "L", "M",
               "N", "O", "P", "Q", "R", "S", "T", "U", "V", "W", "X", "Y", "Z">>

LowerCase == <<"a", "b", "c", "d", "e", "f", "g", "h", "i", "j", "k", "l", "m",
               "n", "o", "p", "q", "r", "s", "t", "u", "v", "w", "x", "y", "z">>

Range(f) == {f[i] : i \in DOMAIN f}

\* The value of a one-element set.  { e(x) : x \in {v} } computes v once and
\* hands it to e as a value, which keeps the staged computations below linear.
TheOnly(S) == CHOOSE x \in S : TRUE

\* Number -> decimal digits, as string concatenation with a number does.
RECURSIVE ToDecimal(_)
ToDecimal(k) ==
    IF k < 0 THEN <<"-">> \o ToDecimal(0 - k)
    ELSE IF k < 10 THEN <<Digits[k + 1]>>
    ELSE ToDecimal(k \div 10) \o <<Digits[(k % 10) + 1]>>

\* String(v) as "+" applies it to a non-string operand.
JsString(v) ==
    CASE v.kind = "string" -> v.s
      [] v.kind = "null" -> <<"n", "u", "l", "l">>
      [] v.kind = "undefined" -> <<"u", "n", "d", "e", "f", "i", "n", "e", "d">>
      [] v.kind = "number" -> ToDecimal(v.n)
      [] OTHER -> <<"[", "o", "b", "j", "e", "c", "t", "]">>

\* s.indexOf(pat), 1-based; 0 where JavaScript answers -1.
IndexOf(s, pat) ==
    LET hits == {i \in 1..(Len(s) - Len(pat) + 1) : SubSeq(s, i, i + Len(pat) - 1) = pat}
    IN IF hits = {} THEN 0 ELSE CHOOSE i \in hits : \A j \in hits : i <= j

\* s.replace(pat, '') with a string pattern: the first occurrence only.
ReplaceFirstWithEmpty(s, pat) ==
    LET i == IndexOf(s, pat)
    IN IF i = 0 THEN s ELSE SubSeq(s, 1, i - 1) \o SubSeq(s, i + Len(pat), Len(s))

ToLowerChar(c) ==
    IF c \in Range(UpperCase)
    THEN LowerCase[CHOOSE i \in DOMAIN UpperCase : UpperCase[i] = c]
    ELSE c

ToLowerCase(s) == [i \in DOMAIN s |-> ToLowerChar(s[i])]

\* Characters encodeURIComponent leaves alone: A-Z a-z 0-9 - _ . ! ~ * ' ( )
UriUnreserved ==
    Range(UpperCase) \cup Range(LowerCase) \cup Range(Digits)
        \cup {"-", "_", ".", "!", "~", "*", "'", "(", ")"}

\* The percent escape of one ASCII character outside UriUnreserved.
PercentEscape(c) ==
    CASE c = ":" -> <<"%", "3", "A">>
      [] c = "/" -> <<"%", "2", "F">>
      [] c = "?" -> <<"%", "3", "F">>
      [] c = "#" -> <<"%", "2", "3">>
      [] c = "$" -> <<"%", "2", "4">>
      [] c = "&" -> <<"%", "2", "6">>
      [] c = "=" -> <<"%", "3", "D">>
      [] c = "+" -> <<"%", "2", "B">>
      [] c = "%" -> <<"%", "2", "5">>
      [] c = " " -> <<"%", "2", "0">>
      [] c = "\n" -> <<"%", "0", "A">>
      [] c = "<" -> <<"%", "3", "C">>
      [] c = ">" -> <<"%", "3", "E">>
      [] c = "|" -> <<"%", "7", "C">>

\* The characters lo..hi of s, those at the positions in esc replaced by their
\* percent escapes (split in halves, so that the nesting stays shallow).
RECURSIVE EscapeAt(_, _, _, _)
EscapeAt(s, esc, lo, hi) ==
    IF lo > hi THEN <<>>
    ELSE IF lo = hi THEN (IF lo \in esc THEN PercentEscape(s[lo]) ELSE <<s[lo]>>)
    ELSE TheOnly({ EscapeAt(s, esc, lo, mid) \o EscapeAt(s, esc, mid + 1, hi) :
                     mid \in {(lo + hi) \div 2} })

\* s with every character that satisfies no exemption of encodeURIComponent escaped
EncodeChars(chars) ==
    TheOnly({ TheOnly({ EscapeAt(s, esc, 1, Len(s)) :
                          esc \in {{i \in DOMAIN s : s[i] \notin UriUnreserved}} })
                : s \in {chars} })

\* encodeURIComponent(v), v converted to a string first.
EncodeURIComponent(v) == EncodeChars(JsString(v))

\* a + b for operands of which at least one is a string.
JsConcat(a, b) == Str(JsString(a) \o JsString(b))

-----------------------------------------------------------------------------
(* url.parse and url.format of Node's legacy url module, as createRelayToken *)
(* and appendRelayToken use them: one argument, so the query stays a string. *)
(* Authority user-info ('@') and the characters url.parse escapes or cuts    *)
(* the host at (spaces, quotes, braces, ...) are outside the alphabet of the *)
(* modelled inputs.                                                          *)

Colon == <<":">>
SlashSlash == <<"/", "/">>

\* /^[a-z0-9.+-]+:/i : length of the match, 0 for none.
ProtocolLength(s) ==
    LET i == IndexOf(s, Colon)
        ok(c) == \/ c \in Range(UpperCase) \cup Range(LowerCase) \cup Range(Digits)
                 \/ c \in {".", "+", "-"}
    IN IF i > 1 /\ \A j \in 1..(i - 1) : ok(s[j]) THEN i ELSE 0

\* the slashedProtocol set: protocols that always carry '//' (ws and wss are
\* in it in current Node releases; http and https in all)
SlashedProtocol(p) ==
    LET name == IF p # <<>> /\ p[Len(p)] = ":" THEN SubSeq(p, 1, Len(p) - 1) ELSE p
    IN name \in { <<"h", "t", "t", "p">>, <<"h", "t", "t", "p", "s">>,
                  <<"f", "t", "p">>, <<"g", "o", "p", "h", "e", "r">>,
                  <<"f", "i", "l", "e">>, <<"w", "s">>, <<"w", "s", "s">> }

\* the hostlessProtocol set
HostlessProtocol(p) ==
    LET name == IF p # <<>> /\ p[Len(p)] = ":" THEN SubSeq(p, 1, Len(p) - 1) ELSE p
    IN name = <<"j", "a", "v", "a", "s", "c", "r", "i", "p", "t">>

\* index of the first character of s that is in cs; Len(s) + 1 for none
FirstOf(s, cs) ==
    LET hits == {i \in 1..Len(s) : s[i] \in cs}
    IN IF hits = {} THEN Len(s) + 1 ELSE CHOOSE i \in hits : \A j \in hits : i <= j

\* /:[0-9]*$/ : index of the ':' that starts the match, 0 for none
PortStart(h) ==
    LET hits == {i \in 1..Len(h) :
                    /\ h[i] = ":"
                    /\ \A j \in (i + 1)..Len(h) : h[j] \in Range(Digits)}
    IN IF hits = {} THEN 0 ELSE CHOOSE i \in hits : \A j \in hits : i <= j

\* url.parse, first stage: the protocol is cut off rest, then the '//'
ParseProtocol(uri) ==
    LET plen == ProtocolLength(uri)
        proto == SubSeq(uri, 1, plen)
        rest1 == SubSeq(uri, plen + 1, Len(uri))
        slashes == /\ plen > 0
                   /\ Len(rest1) >= 2
                   /\ SubSeq(rest1, 1, 2) = SlashSlash
                   /\ ~HostlessProtocol(ToLowerCase(proto))
    IN [ proto |-> proto,
         lowerProto |-> ToLowerCase(proto),
         slashes |-> slashes,
         rest |-> IF slashes THEN SubSeq(rest1, 3, Len(rest1)) ELSE rest1 ]

\* url.parse, second stage: the host is cut off rest up to the first of / ? #,
\* its port split off and its name lower-cased
ParseHost(p) ==
    LET hasHost == /\ ~HostlessProtocol(p.lowerProto)
                   /\ (p.slashes \/ (p.proto # <<>> /\ ~SlashedProtocol(p.proto)))
        hostEnd == IF hasHost THEN FirstOf(p.rest, {"/", "?", "#"}) ELSE 1
        rawHost == SubSeq(p.rest, 1, hostEnd - 1)
        ps == PortStart(rawHost)
    IN [ hasHost |-> hasHost,
         portDigits |-> IF ps = 0 THEN <<>> ELSE SubSeq(rawHost, ps + 1, Len(rawHost)),
         hostname |-> ToLowerCase(IF ps = 0 THEN rawHost ELSE SubSeq(rawHost, 1, ps - 1)),
         rest |-> SubSeq(p.rest, hostEnd, Len(p.rest)) ]

\* url.parse, third stage: the hash, then the search, are cut off rest; what
\* is left is the pathname
ParseTail(rest) ==
    LET hashAt == IndexOf(rest, <<"#">>)
        rest4 == IF hashAt = 0 THEN rest ELSE SubSeq(rest, 1, hashAt - 1)
        qm == IndexOf(rest4, <<"?">>)
    IN [ hash |-> IF hashAt = 0 THEN Null ELSE Str(SubSeq(rest, hashAt, Len(rest))),
         search |-> IF qm = 0 THEN Null ELSE Str(SubSeq(rest4, qm, Len(rest4))),
         query |-> IF qm = 0 THEN Null ELSE Str(SubSeq(rest4, qm + 1, Len(rest4))),
         rest |-> IF qm = 0 THEN rest4 ELSE SubSeq(rest4, 1, qm - 1) ]

\* the Url object url.parse fills in from the three stages
ParsedUrl(p, h, t) ==
    [ protocol |-> IF p.proto # <<>> THEN Str(p.lowerProto) ELSE Null,
      slashes  |-> p.slashes,
      host     |-> IF h.hasHost
                   THEN Str(h.hostname
                              \o (IF h.portDigits # <<>> THEN Colon \o h.portDigits ELSE <<>>))
                   ELSE Null,
      port     |-> IF h.hasHost /\ h.portDigits # <<>> THEN Str(h.portDigits) ELSE Null,
      hostname |-> IF h.hasHost THEN Str(h.hostname) ELSE Null,
      hash     |-> t.hash,
      search   |-> t.search,
      query    |-> t.query,
      pathname |-> IF t.rest # <<>> THEN Str(t.rest)
                   ELSE IF SlashedProtocol(p.lowerProto) /\ h.hasHost /\ h.hostname # <<>>
                        THEN Str(<<"/">>)
                        ELSE Null ]

UrlParse(uri) ==
    TheOnly({ TheOnly({ TheOnly({ ParsedUrl(p, h, t) : t \in {ParseTail(h.rest)} })
                          : h \in {ParseHost(p)} })
                : p \in {ParseProtocol(uri)} })

\* s.replace(/[?#]/g, encodeURIComponent) on the pathname and
\* s.replace(/#/g, '%23') on the search: every character of s in cs escaped
EscapeChars(chars, cs) ==
    TheOnly({ TheOnly({ EscapeAt(s, esc, 1, Len(s)) :
                          esc \in {{i \in DOMAIN s : s[i] \in cs}} })
                : s \in {chars} })

\* v || ''  for a string-or-null field
OrEmpty(v) == IF Falsy(v) THEN <<>> ELSE JsString(v)

UrlFormatOf(u) ==
    LET protocol0 == OrEmpty(u.protocol)
        protocol == IF protocol0 # <<>> /\ protocol0[Len(protocol0)] # ":"
                    THEN protocol0 \o Colon ELSE protocol0
        host0 == IF ~Falsy(u.host) THEN JsString(u.host)
                 ELSE IF ~Falsy(u.hostname)
                      THEN JsString(u.hostname)
                               \o (IF ~Falsy(u.port) THEN Colon \o JsString(u.port) ELSE <<>>)
                      ELSE <<>>
        pathname0 == EscapeChars(OrEmpty(u.pathname), {"?", "#"})
        withSlashes == u.slashes \/ protocol = <<>> \/ SlashedProtocol(protocol)
        host == IF withSlashes THEN SlashSlash \o host0 ELSE host0
        pathname == IF withSlashes /\ pathname0 # <<>> /\ pathname0[1] # "/"
                    THEN <<"/">> \o pathname0 ELSE pathname0
        search0 == EscapeChars(OrEmpty(u.search), {"#"})
        search == IF search0 # <<>> /\ search0[1] # "?" THEN <<"?">> \o search0 ELSE search0
        hash0 == OrEmpty(u.hash)
        hash == IF hash0 # <<>> /\ hash0[1] # "#" THEN <<"#">> \o hash0 ELSE hash0
    IN protocol \o host \o pathname \o search \o hash

UrlFormat(parsedUrl) == TheOnly({ UrlFormatOf(u) : u \in {parsedUrl} })

-----------------------------------------------------------------------------
(* Token issuing.                                                          *)

DefaultExpirationSeconds == 3600

Threw == [threw |-> TRUE, value |-> Undefined]
Returned(v) == [threw |-> FALSE, value |-> v]

\* parsedUrl after the assignments to protocol, search, hash, port and pathname
NormalizeParsedUrl(parsedUrl) ==
    [parsedUrl EXCEPT
        !.protocol = Str(<<"h", "t", "t", "p">>),
        !.search = Null,
        !.hash = Null,
        !.port = Null,
        !.pathname = Str(ReplaceFirstWithEmpty(parsedUrl.pathname.s, <<"$", "h", "c", "/">>))]

\* the uri that createRelayToken signs; null.replace(...) raises a TypeError
SignedResourceOf(parsedUrl) ==
    IF parsedUrl.pathname.kind # "string" THEN Threw
    ELSE Returned(Str(UrlFormat(NormalizeParsedUrl(parsedUrl))))

SignedResource(uri) ==
    TheOnly({ SignedResourceOf(parsedUrl) : parsedUrl \in {UrlParse(JsString(uri))} })

\* ExpirationOrDefault with the test written 'expirationSeconds == null': a
\* zero lifetime is kept
ExpirationOrDefaultIfNull(expirationSeconds) ==
    IF ~NotNullish(expirationSeconds) THEN Num(DefaultExpirationSeconds)
    ELSE expirationSeconds

\* if (!expirationSeconds) expirationSeconds = 3600
ExpirationOrDefault(expirationSeconds) ==
    IF Falsy(expirationSeconds) THEN Num(DefaultExpirationSeconds) ELSE expirationSeconds

\* moment().add(expirationSeconds, 'seconds').unix() with the clock at t milliseconds
UnixSeconds(t, expirationSeconds) == (t + expirationSeconds.n * 1000) \div 1000

\* StringToSign over the resource as it is, not encoded
StringToSignUnencoded(uri, unixSeconds) ==
    JsString(uri) \o <<"\n">> \o ToDecimal(unixSeconds)

\* encodeURIComponent(uri) + '\n' + unixSeconds
StringToSign(uri, unixSeconds) ==
    EncodeURIComponent(uri) \o <<"\n">> \o ToDecimal(unixSeconds)

\* createHmac('sha256', key).update(msg).digest('base64'): the digest is kept
\* symbolic, an injective rendering of the pair (key, msg)
HmacSha256Base64(key, msg) == <<"<">> \o JsString(key) \o <<"|">> \o msg \o <<">">>

SasPrefix ==
    <<"S", "h", "a", "r", "e", "d", "A", "c", "c", "e", "s", "s", "S", "i", "g", "n",
      "a", "t", "u", "r", "e", " ", "s", "r", "=">>
SigKey == <<"&", "s", "i", "g", "=">>
SeKey == <<"&", "s", "e", "=">>
SknKey == <<"&", "s", "k", "n", "=">>

\* 'SharedAccessSignature sr=' + ... + '&sig=' + ... + '&se=' + ... + '&skn=' + keyName
TokenString(uri, signature, unixSeconds, keyName) ==
    SasPrefix \o EncodeURIComponent(uri)
        \o SigKey \o EncodeChars(signature)
        \o SeKey \o ToDecimal(unixSeconds)
        \o SknKey \o JsString(keyName)

\* createRelayToken(uri, keyName, key, expirationSeconds) called with the clock at t
CreateRelayTokenOf(resource, keyName, key, expirationSeconds, t) ==
    LET unixSeconds == UnixSeconds(t, ExpirationOrDefault(expirationSeconds))
        signature == HmacSha256Base64(key, StringToSign(resource.value, unixSeconds))
    IN IF resource.threw THEN Threw
       ELSE Returned(Str(TokenString(resource.value, signature, unixSeconds, keyName)))

CreateRelayToken(uri, keyName, key, expirationSeconds, t) ==
    TheOnly({ CreateRelayTokenOf(resource, keyName, key, expirationSeconds, t) :
                resource \in {SignedResource(uri)} })

TokenParam == <<"&", "s", "b", "-", "h", "c", "-", "t", "o", "k", "e", "n", "=">>
IdParam == <<"&", "s", "b", "-", "h", "c", "-", "i", "d", "=">>

\* appendRelayToken(uri, keyName, key, expirationSeconds) called with the clock at t
\* AppendRelayTokenOf with the parameter added to the formatted uri, past the fragment
AppendRelayTokenPastFragment(token, parsedUrl) ==
    IF token.threw THEN Threw
    ELSE Returned(Str(UrlFormat(parsedUrl) \o TokenParam \o EncodeURIComponent(token.value)))

AppendRelayTokenOf(token, parsedUrl) ==
    LET search == JsConcat(parsedUrl.search, Str(TokenParam \o EncodeURIComponent(token.value)))
    IN IF token.threw THEN Threw
       ELSE Returned(Str(UrlFormat([parsedUrl EXCEPT !.search = search])))

AppendRelayToken(uri, keyName, key, expirationSeconds, t) ==
    TheOnly({ AppendRelayTokenOf(token, parsedUrl) :
                token \in {CreateRelayToken(uri, keyName, key, expirationSeconds, t)},
                parsedUrl \in {UrlParse(JsString(uri))} })

-----------------------------------------------------------------------------
(* Relay URIs.                                                             *)

\* 'wss://' + serviceBusNamespace + ':443/$hc/' + path
CreateRelayBaseUri(serviceBusNamespace, path) ==
    <<"w", "s", "s", ":", "/", "/">> \o JsString(serviceBusNamespace)
        \o <<":", "4", "4", "3", "/", "$", "h", "c", "/">> \o JsString(path)

ActionConnect ==
    <<"s", "b", "-", "h", "c", "-", "a", "c", "t", "i", "o", "n", "=",
      "c", "o", "n", "n", "e", "c", "t">>
ActionListen ==
    <<"s", "b", "-", "h", "c", "-", "a", "c", "t", "i", "o", "n", "=",
      "l", "i", "s", "t", "e", "n">>

CreateRelaySendUri(serviceBusNamespace, path, token, id) ==
    LET uri0 == CreateRelayBaseUri(serviceBusNamespace, path)
        uri1 == uri0 \o (IF IndexOf(uri0, <<"?">>) = 0 THEN <<"?">> ELSE <<"&">>)
                     \o ActionConnect
        uri2 == IF NotNullish(token)
                THEN uri1 \o TokenParam \o EncodeURIComponent(token) ELSE uri1
        uri3 == IF NotNullish(id) THEN uri2 \o IdParam \o EncodeURIComponent(id) ELSE uri2
    IN uri3

\* CreateRelayListenUri with the action of the send URI left in
CreateRelayListenUriAsConnect(serviceBusNamespace, path, token, id) ==
    CreateRelaySendUri(serviceBusNamespace, path, token, id)

CreateRelayListenUri(serviceBusNamespace, path, token, id) ==
    LET uri0 == CreateRelayBaseUri(serviceBusNamespace, path)
        uri1 == uri0 \o (IF IndexOf(uri0, <<"?">>) = 0 THEN <<"?">> ELSE <<"&">>)
                     \o ActionListen
        uri2 == IF NotNullish(token)
                THEN uri1 \o TokenParam \o EncodeURIComponent(token) ELSE uri1
        uri3 == IF NotNullish(id) THEN uri2 \o IdParam \o EncodeURIComponent(id) ELSE uri2
    IN uri3

-----------------------------------------------------------------------------
(* Connection factory.                                                     *)

\* the WebSocket object that new WS(address, null, opt) yields
ClientHandle == [kind |-> "object", s |-> <<"W", "S">>, n |-> 0]

NoOpt == [isNull |-> TRUE, headers |-> <<>>, agent |-> Undefined]

\* OptWithToken with the test written 'if (token)': an empty token sets no header
OptWithTokenIfTruthy(token) ==
    IF ~Falsy(token)
    THEN [isNull |-> FALSE,
          headers |-> << <<"ServiceBusAuthorization", token>> >>,
          agent |-> Undefined]
    ELSE [isNull |-> TRUE, headers |-> <<>>, agent |-> Undefined]

\* opt after 'var opt = null; if (token != null) opt = { headers : {...} }'
OptWithToken(token) ==
    IF NotNullish(token)
    THEN [isNull |-> FALSE,
          headers |-> << <<"ServiceBusAuthorization", token>> >>,
          agent |-> Undefined]
    ELSE NoOpt

\* if (agent != null && typeof agent === 'object') opt.agent = agent
AgentIsAssigned(agent) == NotNullish(agent) /\ TypeofObject(agent)

\* the 'open' listeners registered on the client, in registration order; each
\* is the closure function() { fn(client) }, kept as the value it calls and
\* the argument it passes
OpenListeners(agent, fn, client) ==
    (IF IsFunction(fn) THEN << [callee |-> fn, arg |-> client] >> ELSE <<>>)
        \o (IF IsFunction(agent) THEN << [callee |-> fn, arg |-> client] >> ELSE <<>>)

\* relayedConnect(address, token, agent, fn): assigning a property of a null
\* opt raises a TypeError before the transport is constructed
RelayedConnectCall(address, token, agent, fn) ==
    LET opt0 == OptWithToken(token)
        throws == AgentIsAssigned(agent) /\ opt0.isNull
        opt == IF AgentIsAssigned(agent) THEN [opt0 EXCEPT !.agent = agent] ELSE opt0
    IN [ called |-> TRUE,
         args |-> <<address, token, agent, fn>>,
         threw |-> throws,
         transport |-> IF throws THEN <<>>
                       ELSE << [address |-> address, protocols |-> Null, opt |-> opt] >>,
         result |-> IF throws THEN Undefined ELSE ClientHandle,
         listeners |-> IF throws THEN <<>> ELSE OpenListeners(agent, fn, ClientHandle),
         opens |-> 0 ]

\* emitter.emit(event): the listeners run in registration order, each logged
\* as the call it makes; calling a value that is no function raises a
\* TypeError, which leaves emit and skips the listeners after it
RECURSIVE RunOpenListeners(_, _)
RunOpenListeners(listeners, event) ==
    IF listeners = <<>> THEN <<>>
    ELSE LET l == Head(listeners)
             entry == [event |-> event, callee |-> l.callee, arg |-> l.arg,
                       typeError |-> ~IsFunction(l.callee)]
         IN IF entry.typeError THEN <<entry>>
            ELSE <<entry>> \o RunOpenListeners(Tail(listeners), event)

-----------------------------------------------------------------------------
(* Server factory.                                                         *)

\* new WS.RelayedServer(options): the server object, no listener registered
NewRelayedServer(options) == [options |-> options, listeners |-> <<>>]

\* CreateRelayedServerCall with the test written 'if (fn != null)': whatever
\* is passed gets registered
CreateRelayedServerCallAnyFn(options, fn) ==
    LET server == NewRelayedServer(options)
        wired == IF NotNullish(fn)
                 THEN [server EXCEPT !.listeners = Append(@, fn)]
                 ELSE server
    IN [ called |-> TRUE,
         args |-> <<options, fn>>,
         constructed |-> <<options>>,
         result |-> wired,
         emitted |-> <<>> ]

\* createRelayedServer(options, fn)
CreateRelayedServerCall(options, fn) ==
    LET server == NewRelayedServer(options)
        wired == IF IsFunction(fn)
                 THEN [server EXCEPT !.listeners = Append(@, fn)]
                 ELSE server
    IN [ called |-> TRUE,
         args |-> <<options, fn>>,
         constructed |-> <<options>>,
         result |-> wired,
         emitted |-> <<>> ]

\* server.emit('connection', socket): every listener is called with socket
RunConnectionListeners(listeners, event, socket) ==
    [i \in DOMAIN listeners |-> [event |-> event, callee |-> listeners[i], arg |-> socket]]

-----------------------------------------------------------------------------
(* Inputs.                                                                 *)

Schemes == { <<"w", "s", "s">>, <<"h", "t", "t", "p", "s">> }
Hosts == { <<"n", "s">>, <<"N", "s">> }
Ports == { <<>>, <<":", "4", "4", "3">> }
Paths == { <<>>, <<"/", "f", "o", "o">>, <<"/", "$", "h", "c", "/", "f", "o", "o">>,
           <<"/", "a", "/", "$", "h", "c", "/", "b">> }
Queries == { <<>>, <<"?", "x", "=", "1">> }
Fragments == { <<>>, <<"#", "f">> }

Uris ==
    { Str(sc \o <<":", "/", "/">> \o h \o po \o pa \o q \o f) :
        sc \in Schemes, h \in Hosts, po \in Ports, pa \in Paths, q \in Queries,
        f \in Fragments }

KeyNames == { Str(<<"k", "n">>), Str(<<"r", "o", "o", "t">>) }
Keys == { Str(<<"s", "1">>), Str(<<"s", "2">>) }
Expirations == { Undefined, Null, Num(0), Num(1), Num(60) }

Namespaces == { Str(<<"n", "s">>) }
RelayPaths == { Str(<<"f", "o", "o">>), Str(<<"a", "?", "b", "=", "1">>), Str(<<>>) }
UriTokens == { Undefined, Null, Str(<<"T", " ", "=", "1">>), Str(<<>>) }
UriIds == { Undefined, Null, Str(<<"i", "/", "1">>) }

Addresses == { Str(<<"w", "s", "s", ":", "/", "/", "n", "s">>), Str(<<"a">>) }
ConnectTokens == { Undefined, Null, Str(<<"T", "1">>), Str(<<>>) }
Agents == { Undefined, Null, Obj(1), Fun(2) }
OpenCallbacks == { Undefined, Fun(1), Str(<<"x">>) }

ServerOptions == { Undefined, Obj(3), Obj(4) }
ConnectionCallbacks == { Undefined, Null, Fun(1), Obj(5) }
Sockets == { Obj(6), Obj(7) }

-----------------------------------------------------------------------------
(* The state machine.                                                      *)

NoCall == [op |-> "none", args |-> <<>>, at |-> 0, threw |-> FALSE, value |-> Undefined]

NoConnect ==
    [called |-> FALSE, args |-> <<>>, threw |-> FALSE, transport |-> <<>>,
     result |-> Undefined, listeners |-> <<>>, opens |-> 0]

NoServer ==
    [called |-> FALSE, args |-> <<>>, constructed |-> <<>>,
     result |-> NewRelayedServer(Undefined), emitted |-> <<>>]

Init ==
    /\ now = 0
    /\ ret = NoCall
    /\ conn = NoConnect
    /\ openLog = <<>>
    /\ srv = NoServer
    /\ connLog = <<>>

\* no call of a token/URI function is in progress or waiting to be observed
Idle == ret.op = "none"

\* time passes between calls
Tick ==
    /\ Idle
    /\ now < MaxTicks * TickMs
    /\ now' = now + TickMs
    /\ UNCHANGED <<ret, conn, openLog, srv, connLog>>

Outcome(op, args, outcome) ==
    TheOnly({ [op |-> op, args |-> args, at |-> now, threw |-> r.threw, value |-> r.value] :
                r \in {outcome} })

CallCreateRelayToken ==
    \E uri \in Uris, keyName \in KeyNames, key \in Keys, e \in Expirations :
        /\ Idle
        /\ ret' = Outcome("createRelayToken", <<uri, keyName, key, e>>,
                          CreateRelayToken(uri, keyName, key, e, now))
        /\ UNCHANGED <<now, conn, openLog, srv, connLog>>

CallAppendRelayToken ==
    \E uri \in Uris, keyName \in KeyNames, key \in Keys, e \in Expirations :
        /\ Idle
        /\ ret' = Outcome("appendRelayToken", <<uri, keyName, key, e>>,
                          AppendRelayToken(uri, keyName, key, e, now))
        /\ UNCHANGED <<now, conn, openLog, srv, connLog>>

CallCreateRelayBaseUri ==
    \E ns \in Namespaces, path \in RelayPaths :
        /\ Idle
        /\ ret' = Outcome("createRelayBaseUri", <<ns, path>>,
                          Returned(Str(CreateRelayBaseUri(ns, path))))
        /\ UNCHANGED <<now, conn, openLog, srv, connLog>>

CallCreateRelaySendUri ==
    \E ns \in Namespaces, path \in RelayPaths, token \in UriTokens, id \in UriIds :
        /\ Idle
        /\ ret' = Outcome("createRelaySendUri", <<ns, path, token, id>>,
                          Returned(Str(CreateRelaySendUri(ns, path, token, id))))
        /\ UNCHANGED <<now, conn, openLog, srv, connLog>>

CallCreateRelayListenUri ==
    \E ns \in Namespaces, path \in RelayPaths, token \in UriTokens, id \in UriIds :
        /\ Idle
        /\ ret' = Outcome("createRelayListenUri", <<ns, path, token, id>>,
                          Returned(Str(CreateRelayListenUri(ns, path, token, id))))
        /\ UNCHANGED <<now, conn, openLog, srv, connLog>>

\* the caller has taken the outcome of the call; the functions keep no state
Return ==
    /\ ~Idle
    /\ ret' = NoCall
    /\ UNCHANGED <<now, conn, openLog, srv, connLog>>

RelayedConnect ==
    \E address \in Addresses, token \in ConnectTokens, agent \in Agents,
       fn \in OpenCallbacks :
        /\ conn' = RelayedConnectCall(address, token, agent, fn)
        /\ openLog' = <<>>
        /\ UNCHANGED <<now, ret, srv, connLog>>

\* the transport signals 'open' on the client relayedConnect returned
EmitOpen ==
    /\ conn.called
    /\ ~conn.threw
    /\ conn.opens < MaxOpens
    /\ conn' = [conn EXCEPT !.opens = @ + 1]
    /\ openLog' = openLog \o RunOpenListeners(conn.listeners, conn.opens + 1)
    /\ UNCHANGED <<now, ret, srv, connLog>>

CreateRelayedServer ==
    \E options \in ServerOptions, fn \in ConnectionCallbacks :
        /\ srv' = CreateRelayedServerCall(options, fn)
        /\ connLog' = <<>>
        /\ UNCHANGED <<now, ret, conn, openLog>>

\* the server accepts an inbound connection and emits 'connection'
EmitConnection ==
    \E socket \in Sockets :
        /\ srv.called
        /\ Len(srv.emitted) < MaxConnections
        /\ srv' = [srv EXCEPT !.emitted = Append(@, socket)]
        /\ connLog' = connLog \o RunConnectionListeners(srv.result.listeners,
                                                        Len(srv.emitted) + 1, socket)
        /\ UNCHANGED <<now, ret, conn, openLog>>

TokenNext ==
    \/ Tick
    \/ CallCreateRelayToken
    \/ CallAppendRelayToken
    \/ CallCreateRelayBaseUri
    \/ CallCreateRelaySendUri
    \/ CallCreateRelayListenUri
    \/ Return

ConnectNext == RelayedConnect \/ EmitOpen

ServerNext == CreateRelayedServer \/ EmitConnection

Next == TokenNext \/ ConnectNext \/ ServerNext

\* The three components share no state, so each is checked on its own.
TokenSpec == Init /\ [][TokenNext]_vars
ConnectSpec == Init /\ [][ConnectNext]_vars
ServerSpec == Init /\ [][ServerNext]_vars
Spec == Init /\ [][Next]_vars

-----------------------------------------------------------------------------
(* Reading a call's outcome.                                               *)

StartsWith(s, prefix) == Len(s) >= Len(prefix) /\ SubSeq(s, 1, Len(prefix)) = prefix

\* what follows the first occurrence of pat in s
After(s, pat) ==
    LET i == IndexOf(s, pat)
    IN IF i = 0 THEN <<>> ELSE SubSeq(s, i + Len(pat), Len(s))

\* what precedes the first occurrence of pat in s (all of s when there is none)
Before(s, pat) ==
    LET i == IndexOf(s, pat)
    IN IF i = 0 THEN s ELSE SubSeq(s, 1, i - 1)

\* the fields of a token, cut at the field keys
FieldSr(token) == Before(After(token, <<"s", "r", "=">>), SigKey)
FieldSig(token) == Before(After(token, SigKey), SeKey)
FieldSe(token) == Before(After(token, SeKey), SknKey)
FieldSkn(token) == After(token, SknKey)

TokenIssued == ret.op = "createRelayToken" /\ ~ret.threw

-----------------------------------------------------------------------------
(* Claims about the token issuer (TokenSpec).                              *)

\* the path with a leading '$hc/' segment, and only a leading one, removed
StripLeadingHc(path) ==
    IF StartsWith(path, <<"/", "$", "h", "c", "/">>)
    THEN <<"/">> \o SubSeq(path, 6, Len(path))
    ELSE path

\* http://<host><path>: no port, no query, no fragment
ResourceWithoutPort(uri) ==
    LET u == UrlParse(uri)
    IN <<"h", "t", "t", "p", ":", "/", "/">> \o u.hostname.s \o StripLeadingHc(u.pathname.s)

\* C5: the resource createRelayToken signs and puts in sr is the uri with the
\* scheme forced to http, the query, the fragment and the port removed, and a
\* leading $hc/ segment of the path (only a leading one) removed.
C5_SignedResourceNormalized ==
    TokenIssued => FieldSr(ret.value.s) = EncodeChars(ResourceWithoutPort(ret.args[1].s))

\* C6: se is the Unix-seconds value of the clock at the call plus
\* expirationSeconds, taken as 3600 when absent, null or zero; the clock is
\* read at every call.
C6_ExpiryIsNowPlusExpiration ==
    TokenIssued =>
        LET e == ret.args[4]
            seconds == IF e.kind \in {"undefined", "null"} \/ e = Num(0) THEN 3600 ELSE e.n
        IN FieldSe(ret.value.s) = ToDecimal((ret.at \div 1000) + seconds)

\* C6 witness: a token issued after the clock has passed a whole second, with
\* an explicit lifetime
C6_Witness ==
    /\ TokenIssued
    /\ ret.at >= 1000
    /\ ret.args[4] = Num(60)
    /\ FieldSe(ret.value.s) = ToDecimal((ret.at \div 1000) + 60)

\* C7: the token is 'SharedAccessSignature sr=R&sig=S&se=E&skn=keyName' in that
\* order, R the encoded signed resource, E the expiry in decimal, and S the
\* encoded base64 HMAC, keyed by key, of R, a newline and E: the very R and E
\* of the token.
C7_TokenSignsItsOwnFields ==
    TokenIssued =>
        LET token == ret.value.s
            R == FieldSr(token)
            E == FieldSe(token)
            S == EncodeChars(HmacSha256Base64(ret.args[3], R \o <<"\n">> \o E))
        IN /\ token = SasPrefix \o R \o SigKey \o S \o SeKey \o E \o SknKey \o ret.args[2].s
           /\ R = EncodeChars(SignedResource(ret.args[1]).value.s)
           /\ E # <<>>
           /\ \A i \in DOMAIN E : E[i] \in Range(Digits)

\* C7 witness: a token whose resource needed encoding and whose four fields
\* are all filled
C7_Witness ==
    /\ TokenIssued
    /\ IndexOf(FieldSr(ret.value.s), <<"%", "2", "F">>) > 0
    /\ FieldSig(ret.value.s) # <<>>
    /\ FieldSe(ret.value.s) # <<>>
    /\ FieldSkn(ret.value.s) = <<"r", "o", "o", "t">>

-----------------------------------------------------------------------------
(* Claims about the URI builder (TokenSpec).                               *)

\* '&sb-hc-token=<encoded token>' when token is non-null, then
\* '&sb-hc-id=<encoded id>' when id is non-null
OptionalParams(token, id) ==
    (IF token.kind \in {"null", "undefined"} THEN <<>>
     ELSE TokenParam \o EncodeChars(JsString(token)))
        \o (IF id.kind \in {"null", "undefined"} THEN <<>>
            ELSE IdParam \o EncodeChars(JsString(id)))

IsRelayUriCall == ret.op \in {"createRelaySendUri", "createRelayListenUri"}

ActionOf(op) == IF op = "createRelaySendUri" THEN ActionConnect ELSE ActionListen

BaseOf(args) ==
    <<"w", "s", "s", ":", "/", "/">> \o args[1].s
        \o <<":", "4", "4", "3", "/", "$", "h", "c", "/">> \o args[2].s

\* C8 as stated: the base URI, '?sb-hc-action=connect' (listen for the listen
\* URI), then the token parameter iff token is non-null, then the id
\* parameter iff id is non-null, and nothing else, for every namespace and path.
C8_Original ==
    IsRelayUriCall =>
        ret.value.s = BaseOf(ret.args) \o <<"?">> \o ActionOf(ret.op)
                          \o OptionalParams(ret.args[3], ret.args[4])

\* C8 amended: as C8, the action parameter led by '?' when the base URI holds
\* no '?' and by '&' when it holds one.
C8_SeparatorFollowsBaseUri ==
    IsRelayUriCall =>
        LET base == BaseOf(ret.args)
            sep == IF \E i \in DOMAIN base : base[i] = "?" THEN <<"&">> ELSE <<"?">>
        IN ret.value.s = base \o sep \o ActionOf(ret.op)
                             \o OptionalParams(ret.args[3], ret.args[4])

\* C8 witness: a send URI for a path without '?', with a token to encode and
\* no id, ending in the encoded token
C8_Witness ==
    /\ ret.op = "createRelaySendUri"
    /\ ret.args[2] = Str(<<"f", "o", "o">>)
    /\ ret.args[3] = Str(<<"T", " ", "=", "1">>)
    /\ ret.args[4] = Null
    /\ After(ret.value.s, TokenParam) = <<"T", "%", "2", "0", "%", "3", "D", "1">>

\* the uri has a query string: a '?' that no '#' precedes
HasQuery(uri) ==
    \E i \in DOMAIN uri : uri[i] = "?" /\ \A j \in 1..(i - 1) : uri[j] # "#"

\* uri with x put at the end of its query: before the fragment, if there is one
AppendToQuery(uri, x) ==
    LET h == IndexOf(uri, <<"#">>)
    IN IF h = 0 THEN uri \o x
       ELSE SubSeq(uri, 1, h - 1) \o x \o SubSeq(uri, h, Len(uri))

\* the token createRelayToken gives for the arguments and the instant of the call
TokenOfCall == CreateRelayToken(ret.args[1], ret.args[2], ret.args[3], ret.args[4], ret.at)

\* C9 as stated: for a uri with a query string, appendRelayToken returns the
\* uri with '&sb-hc-token=<encoded token>' put at the end of the query and
\* everything else unchanged.
C9_Original ==
    (ret.op = "appendRelayToken" /\ HasQuery(ret.args[1].s)) =>
        /\ ~ret.threw
        /\ ret.value.s = AppendToQuery(ret.args[1].s,
                                       TokenParam \o EncodeChars(TokenOfCall.value.s))

\* url.parse followed by url.format gives the uri back: its scheme and host
\* are in lower case and its path is not empty
RoundTrips(uri) == UrlParse(uri).pathname.kind = "string" /\ UrlFormat(UrlParse(uri)) = uri

\* C9 amended: as C9, for a uri with a query string that url.parse followed by
\* url.format reproduces unchanged.
C9_AppendsToRoundTrippingUri ==
    (ret.op = "appendRelayToken" /\ HasQuery(ret.args[1].s) /\ RoundTrips(ret.args[1].s)) =>
        /\ ~ret.threw
        /\ ret.value.s = AppendToQuery(ret.args[1].s,
                                       TokenParam \o EncodeChars(TokenOfCall.value.s))

\* C9 witness: a token appended to a uri with a port, a query and a fragment,
\* the fragment still last
C9_Witness ==
    /\ ret.op = "appendRelayToken"
    /\ ret.args[1].s = <<"w", "s", "s", ":", "/", "/", "n", "s", ":", "4", "4", "3",
                         "/", "$", "h", "c", "/", "f", "o", "o", "?", "x", "=", "1", "#", "f">>
    /\ ~ret.threw
    /\ IndexOf(ret.value.s, TokenParam) > 0
    /\ After(ret.value.s, <<"#">>) = <<"f">>

-----------------------------------------------------------------------------
(* Claims about the connection factory (ConnectSpec).                      *)

Connected == conn.called /\ ~conn.threw

\* the entries of openLog that the k-th 'open' event made
OpenCallsOf(k) == {i \in DOMAIN openLog : openLog[i].event = k}

\* C1: when fn or agent is callable, every 'open' event runs the supplied
\* open callback exactly once, with the client relayedConnect returned.
C1_OpenCallbackOncePerOpen ==
    LET agent == conn.args[3]
        fn == conn.args[4]
        callback == IF fn.kind = "function" THEN fn ELSE agent
    IN (conn.called /\ (fn.kind = "function" \/ agent.kind = "function")) =>
        /\ ~conn.threw
        /\ \A k \in 1..conn.opens :
              /\ Cardinality(OpenCallsOf(k)) = 1
              /\ \A i \in OpenCallsOf(k) :
                    /\ openLog[i].callee = callback
                    /\ openLog[i].arg = conn.result
                    /\ ~openLog[i].typeError

\* C2: with agent a non-null object the call does not raise and the transport
\* is opened with options whose agent is that object, whatever the token.
C2_AgentObjectReachesTransport ==
    (conn.called /\ conn.args[3].kind = "object") =>
        /\ ~conn.threw
        /\ Len(conn.transport) = 1
        /\ ~conn.transport[1].opt.isNull
        /\ conn.transport[1].opt.agent = conn.args[3]

\* C3: the options given to the transport constructor carry the header
\* ServiceBusAuthorization iff token is neither null nor undefined, its value
\* is the token itself, and the address is the address argument.
C3_AuthorizationHeaderIffToken ==
    \A i \in DOMAIN conn.transport :
        LET call == conn.transport[i]
            token == conn.args[2]
            auth == {j \in DOMAIN call.opt.headers :
                        call.opt.headers[j][1] = "ServiceBusAuthorization"}
        IN /\ call.address = conn.args[1]
           /\ (auth # {}) <=> (token.kind \notin {"null", "undefined"})
           /\ Cardinality(auth) <= 1
           /\ \A j \in auth : call.opt.headers[j][2] = token

\* C3 witness: a connection opened with a token and an agent object, the
\* header in the options the transport got
C3_Witness ==
    /\ Connected
    /\ conn.args[2] = Str(<<"T", "1">>)
    /\ conn.args[3] = Obj(1)
    /\ Len(conn.transport) = 1
    /\ conn.transport[1].opt.headers = << <<"ServiceBusAuthorization", Str(<<"T", "1">>)>> >>

\* C10: no 'open' event makes a listener call a value that is not a function.
C10_ListenersCallOnlyFunctions ==
    \A i \in DOMAIN openLog : ~openLog[i].typeError /\ openLog[i].callee.kind = "function"

-----------------------------------------------------------------------------
(* Claims about the server factory (ServerSpec).                           *)

\* C4: createRelayedServer constructs exactly one server, from options, and
\* returns it; a callable fn is called once per 'connection' event, with that
\* event's connection and in emission order; a fn that is not callable is not
\* registered.
C4_ConnectionListenerWiring ==
    srv.called =>
        LET options == srv.args[1]
            fn == srv.args[2]
        IN /\ srv.constructed = <<options>>
           /\ srv.result.options = options
           /\ IF fn.kind = "function"
              THEN connLog = [k \in 1..Len(srv.emitted) |->
                                 [event |-> k, callee |-> fn, arg |-> srv.emitted[k]]]
              ELSE srv.result.listeners = <<>> /\ connLog = <<>>

\* C4 witness: a server with a listener that has seen two different
\* connections, in order
C4_Witness ==
    /\ srv.called
    /\ srv.args[2] = Fun(1)
    /\ srv.emitted = <<Obj(7), Obj(6)>>
    /\ Len(connLog) = 2
    /\ connLog[1].arg = Obj(7)
    /\ connLog[2].arg = Obj(6)

====
